---------------------------- MODULE Spec2Model ----------------------------
(* A model of src/cache_system.py: the LRU and LFU eviction strategies,    *)
(* the Cache that counts hits and misses around them, the ThreadSafeCache   *)
(* that runs each call under a lock, and                                   *)
(* CacheStampedePrevention.get_or_compute run by several threads over one  *)
(* shared cache.                                                           *)
(*                                                                         *)
(* Keys are the integers 1..NumKeys (Python compares the key strings in    *)
(* the heap's tuples, so keys need an order: 1, 2, 3, 4 stand for          *)
(* "a" < "b" < "c" < "d").  Values are 1..NumValues, and None is 0.        *)
EXTENDS Integers, Sequences, FiniteSets, TLC

\* ------------------------------------------------------------- bounds
\* The counters the code never bounds are capped in the guards.
MaxFreq == 2
MaxClock == 1
MaxGets == 2
\* how many get_or_compute calls the threads make in all
MaxCalls == 4

None == 0

\* no exception
NoError == "none"

Kinds == {"LRU", "LFU"}

Keys == {1, 2, 3}
Values == {1, 2}
Capacities == {1, 2}
Threads == {1, 2, 3}
\* lock objects: no more than one per thread and one per key are alive at once
LockIds == 1..(Cardinality(Threads) + Cardinality(Keys))
\* What a caller may store: any value, None included.
Storable == Values \cup {None}

VARIABLES
  kind,         \* which strategy the factory built: "LRU" or "LFU"
  capacity,     \* Cache.capacity = strategy.capacity
  cache,        \* strategy.cache: sequence of [key, value] in dict order
  freq,         \* LFUStrategy.freq
  access_time,  \* LFUStrategy.access_time
  min_heap,     \* LFUStrategy.min_heap: heapq array of <<freq, time, key>>
  stats,        \* Cache.stats
  clock,        \* the last value datetime.now() returned
  op,           \* history: the last Cache call, [name, key, value, present (was the key stored)]
  ret,          \* what the last Cache call returned
  error,        \* the exception the last Cache call raised, or NoError
  pushes,       \* history: the heappush calls the last Cache call made
  recency,      \* history: the stored keys, the least recently accessed first
  key_locks,    \* CacheStampedePrevention.key_locks: key -> lock object
  global_lock,  \* the thread that holds global_lock, or None
  holder,       \* for each lock object, the thread that holds it, or None
  pc,           \* where each thread is in get_or_compute
  local,        \* each thread's key, lock and value
  call,         \* history of each thread's current call
  started,      \* history: how many calls were made, and the keys a call failed for
  thread_safe,  \* the factory's thread_safe: the cache is wrapped in a ThreadSafeCache
  lock,         \* the thread that holds ThreadSafeCache.lock, or None
  lin           \* history: a Cache that runs the ThreadSafeCache calls one at a time

cacheVars == <<kind, capacity, cache, freq, access_time, min_heap, stats, clock>>
callerVars == <<op, ret, error, pushes>>
threadLocks == <<key_locks, global_lock, holder>>
threadVars == <<key_locks, global_lock, holder, pc, local, call, started>>
guardVars == <<thread_safe, lock, lin>>
vars == <<kind, capacity, cache, freq, access_time, min_heap, stats, clock, op, ret, error, pushes,
          recency,
          key_locks, global_lock, holder, pc, local, call, started, thread_safe, lock, lin>>

\* ------------------------------------------------------ dict helpers
EmptyMap == [k \in {} |-> 0]

KeysOf(c) == {c[i].key : i \in 1..Len(c)}

Has(c, key) == \E i \in 1..Len(c) : c[i].key = key

IndexOf(c, key) == CHOOSE i \in 1..Len(c) : c[i].key = key

ValueOf(c, key) == c[IndexOf(c, key)].value

\* del d[key]
DictDel(c, key) == SelectSeq(c, LAMBDA e : e.key # key)

\* d[key] = value: an existing key keeps its place, a new one goes last
DictSet(c, key, value) ==
  IF Has(c, key)
  THEN [i \in 1..Len(c) |-> IF c[i].key = key THEN [key |-> key, value |-> value] ELSE c[i]]
  ELSE Append(c, [key |-> key, value |-> value])

\* OrderedDict.move_to_end(key)
MoveToEnd(c, key) == Append(DictDel(c, key), c[IndexOf(c, key)])

MapDel(f, key) == [k \in DOMAIN f \ {key} |-> f[k]]

MapSet(f, key, x) == [k \in DOMAIN f \cup {key} |-> IF k = key THEN x ELSE f[k]]

\* ------------------------------------------------------- LRUStrategy
\* LRUGet without the move_to_end
LRUGetNoRefresh(c, key) ==
  IF ~Has(c, key)
  THEN [cache |-> c, ret |-> None]
  ELSE [cache |-> c, ret |-> ValueOf(c, key)]

LRUGet(c, key) ==
  IF ~Has(c, key)
  THEN [cache |-> c, ret |-> None]
  ELSE [cache |-> MoveToEnd(c, key), ret |-> ValueOf(c, key)]

\* LRUPut that checks the capacity before it looks for the key
LRUPutEvictsFirst(c, cap, key, value) ==
  IF Len(c) >= cap
  THEN [cache |-> DictSet(Tail(c), key, value), ret |-> Head(c).key, error |-> NoError]
  ELSE IF Has(c, key)
       THEN [cache |-> MoveToEnd(DictSet(c, key, value), key), ret |-> None, error |-> NoError]
       ELSE [cache |-> DictSet(c, key, value), ret |-> None, error |-> NoError]

\* LRUPut with > for >= in the capacity test
LRUPutOffByOne(c, cap, key, value) ==
  IF Has(c, key)
  THEN [cache |-> MoveToEnd(DictSet(c, key, value), key), ret |-> None, error |-> NoError]
  ELSE IF Len(c) > cap
       THEN [cache |-> DictSet(Tail(c), key, value), ret |-> Head(c).key, error |-> NoError]
       ELSE [cache |-> DictSet(c, key, value), ret |-> None, error |-> NoError]

\* LRUPut that makes room while one more key still fits
LRUPutEvictsEarly(c, cap, key, value) ==
  IF Has(c, key)
  THEN [cache |-> MoveToEnd(DictSet(c, key, value), key), ret |-> None, error |-> NoError]
  ELSE IF Len(c) >= cap - 1
       THEN IF c = <<>>
            THEN [cache |-> c, ret |-> None, error |-> "KeyError"]
            ELSE [cache |-> DictSet(Tail(c), key, value), ret |-> Head(c).key, error |-> NoError]
       ELSE [cache |-> DictSet(c, key, value), ret |-> None, error |-> NoError]

\* popitem(last=False) raises KeyError on an empty OrderedDict, before the new
\* key is stored
LRUPut(c, cap, key, value) ==
  IF Has(c, key)
  THEN [cache |-> MoveToEnd(DictSet(c, key, value), key), ret |-> None, error |-> NoError]
  ELSE IF Len(c) >= cap
       THEN IF c = <<>>
            THEN [cache |-> c, ret |-> None, error |-> "KeyError"]
            ELSE [cache |-> DictSet(Tail(c), key, value), ret |-> Head(c).key, error |-> NoError]
       ELSE [cache |-> DictSet(c, key, value), ret |-> None, error |-> NoError]

LRURemove(c, key) ==
  IF Has(c, key)
  THEN [cache |-> DictDel(c, key), ret |-> TRUE]
  ELSE [cache |-> c, ret |-> FALSE]


\* ------------------------------------------------------- LFUStrategy
\* the heap's order without the timestamp: (frequency, key)
TupleLessNoTime(a, b) ==
  \/ a[1] < b[1]
  \/ a[1] = b[1] /\ a[3] < b[3]

\* Python's tuple order on (frequency, timestamp, key)
TupleLess(a, b) ==
  \/ a[1] < b[1]
  \/ a[1] = b[1] /\ a[2] < b[2]
  \/ a[1] = b[1] /\ a[2] = b[2] /\ a[3] < b[3]

\* heapq._siftdown: the new item climbs while it is smaller than its parent
\* (Python's array is 0-based with parent (pos - 1) >> 1; here 1-based, pos \div 2)
RECURSIVE SiftDown(_, _, _)
SiftDown(h, pos, item) ==
  IF pos > 1 /\ TupleLess(item, h[pos \div 2])
  THEN SiftDown([h EXCEPT ![pos] = h[pos \div 2]], pos \div 2, item)
  ELSE [h EXCEPT ![pos] = item]

\* heapq.heappush
HeapPush(h, item) == SiftDown(Append(h, item), Len(h) + 1, item)

\* heapq.heappop's result, the root.  put discards what is left of the heap:
\* it rebuilds the heap before it returns.
HeapPopItem(h) == h[1]

RECURSIVE RebuildFrom(_, _, _, _, _)
RebuildFrom(c, f, at, i, h) ==
  IF i > Len(c) THEN h
  ELSE RebuildFrom(c, f, at, i + 1, HeapPush(h, <<f[c[i].key], at[c[i].key], c[i].key>>))

\* LFUStrategy._rebuild_heap: push every key of the dict, in dict order
RebuildHeap(c, f, at) == RebuildFrom(c, f, at, 1, <<>>)

Rebuilt(s) == [s EXCEPT !.min_heap = RebuildHeap(s.cache, s.freq, s.access_time)]

FreqGet(f, key) == IF key \in DOMAIN f THEN f[key] ELSE 0

\* a get without the test of line 101: an absent key gets a frequency and a
\* timestamp
LFUGetCountsAbsent(s, key, now) ==
  IF ~Has(s.cache, key)
  THEN [s |-> [s EXCEPT !.freq = MapSet(s.freq, key, FreqGet(s.freq, key) + 1),
                        !.access_time = MapSet(s.access_time, key, now)],
        ret |-> None]
  ELSE [s |-> Rebuilt([s EXCEPT !.freq = MapSet(s.freq, key, FreqGet(s.freq, key) + 1),
                                !.access_time = MapSet(s.access_time, key, now)]),
        ret |-> ValueOf(s.cache, key)]

\* a get that leaves the heap as it was
LFUGetNoRebuild(s, key, now) ==
  IF ~Has(s.cache, key)
  THEN [s |-> s, ret |-> None]
  ELSE [s |-> [s EXCEPT !.freq = MapSet(s.freq, key, FreqGet(s.freq, key) + 1),
                        !.access_time = MapSet(s.access_time, key, now)],
        ret |-> ValueOf(s.cache, key)]

LFUGet(s, key, now) ==
  IF ~Has(s.cache, key)
  THEN [s |-> s, ret |-> None]
  ELSE [s |-> Rebuilt([s EXCEPT !.freq = MapSet(s.freq, key, FreqGet(s.freq, key) + 1),
                                !.access_time = MapSet(s.access_time, key, now)]),
        ret |-> ValueOf(s.cache, key)]

\* an eviction that forgets to delete the evicted key's frequency
LFUEvictKeepsFreq(s) ==
  IF Len(s.min_heap) > 0
  THEN LET evicted == HeapPopItem(s.min_heap)[3]
       IN  [s |-> [cache |-> DictDel(s.cache, evicted),
                   freq |-> s.freq,
                   access_time |-> MapDel(s.access_time, evicted),
                   min_heap |-> Tail(s.min_heap)],
            ret |-> evicted,
            error |-> NoError]
  ELSE [s |-> s, ret |-> None, error |-> NoError]

\* the eviction branch of LFUStrategy.put: pop the heap's root and delete it
\* (del raises KeyError when the popped key is missing from a dict)
LFUEvict(s) ==
  IF Len(s.min_heap) > 0
  THEN LET evicted == HeapPopItem(s.min_heap)[3]
       IN  [s |-> [cache |-> DictDel(s.cache, evicted),
                   freq |-> MapDel(s.freq, evicted),
                   access_time |-> MapDel(s.access_time, evicted),
                   min_heap |-> Tail(s.min_heap)],
            ret |-> evicted,
            error |-> IF Has(s.cache, evicted) /\ evicted \in DOMAIN s.freq
                         /\ evicted \in DOMAIN s.access_time
                      THEN NoError ELSE "KeyError"]
  ELSE [s |-> s, ret |-> None, error |-> NoError]

LFUPut(s, cap, key, value, now) ==
  IF Has(s.cache, key)
  THEN [s |-> Rebuilt([s EXCEPT !.cache = DictSet(s.cache, key, value),
                                !.freq = MapSet(s.freq, key, FreqGet(s.freq, key) + 1),
                                !.access_time = MapSet(s.access_time, key, now)]),
        ret |-> None,
        error |-> NoError]
  ELSE LET e == IF Len(s.cache) >= cap THEN LFUEvict(s)
                ELSE [s |-> s, ret |-> None, error |-> NoError]
       IN  IF e.error # NoError
           THEN [s |-> [s EXCEPT !.min_heap = Tail(s.min_heap)], ret |-> None, error |-> e.error]
           ELSE [s |-> Rebuilt([e.s EXCEPT !.cache = DictSet(e.s.cache, key, value),
                                           !.freq = MapSet(e.s.freq, key, 1),
                                           !.access_time = MapSet(e.s.access_time, key, now)]),
                 ret |-> e.ret,
                 error |-> NoError]

\* a remove that leaves the key's timestamp behind
LFURemoveKeepsTime(s, key) ==
  IF Has(s.cache, key)
  THEN [s |-> Rebuilt([s EXCEPT !.cache = DictDel(s.cache, key),
                                !.freq = MapDel(s.freq, key)]),
        ret |-> TRUE]
  ELSE [s |-> s, ret |-> FALSE]

LFURemove(s, key) ==
  IF Has(s.cache, key)
  THEN [s |-> Rebuilt([s EXCEPT !.cache = DictDel(s.cache, key),
                                !.freq = MapDel(s.freq, key),
                                !.access_time = MapDel(s.access_time, key)]),
        ret |-> TRUE]
  ELSE [s |-> s, ret |-> FALSE]

\* ------------------------------------------- strategy.get/put/remove
\* The call self.strategy.<op>(...) of Cache, dispatched on the strategy's class.
StrategyGet(k0, s, key, now) ==
  IF k0 = "LRU"
  THEN LET r == LRUGet(s.cache, key) IN [s |-> [s EXCEPT !.cache = r.cache], ret |-> r.ret]
  ELSE LFUGet(s, key, now)

StrategyPut(k0, s, cap, key, value, now) ==
  IF k0 = "LRU"
  THEN LET r == LRUPut(s.cache, cap, key, value)
       IN  [s |-> [s EXCEPT !.cache = r.cache], ret |-> r.ret, error |-> r.error]
  ELSE LFUPut(s, cap, key, value, now)

StrategyRemove(k0, s, key) ==
  IF k0 = "LRU"
  THEN LET r == LRURemove(s.cache, key) IN [s |-> [s EXCEPT !.cache = r.cache], ret |-> r.ret]
  ELSE LFURemove(s, key)

\* strategy.size()
StrategySize(s) == Len(s.cache)

\* ------------------------------------------------------------- Cache
\* A cache object: the strategy's state and the hit/miss counters.

\* a get that counts a hit whatever the strategy answered
CacheGetCountsHit(k0, s, st, key, now) ==
  LET r == StrategyGet(k0, s, key, now)
  IN  [s |-> r.s,
       stats |-> [st EXCEPT !.hits = st.hits + 1],
       ret |-> r.ret]

\* a get that does not count its miss
CacheGetForgetsMiss(k0, s, st, key, now) ==
  LET r == StrategyGet(k0, s, key, now)
  IN  [s |-> r.s,
       stats |-> IF r.ret # None THEN [st EXCEPT !.hits = st.hits + 1] ELSE st,
       ret |-> r.ret]

CacheGet(k0, s, st, key, now) ==
  LET r == StrategyGet(k0, s, key, now)
  IN  [s |-> r.s,
       stats |-> IF r.ret # None THEN [st EXCEPT !.hits = st.hits + 1]
                                 ELSE [st EXCEPT !.misses = st.misses + 1],
       ret |-> r.ret]

CachePut(k0, s, cap, key, value, now) == StrategyPut(k0, s, cap, key, value, now)

CacheRemove(k0, s, key) == StrategyRemove(k0, s, key)

\* a clear that stops before the last key
RECURSIVE RemoveAllButOne(_, _, _)
RemoveAllButOne(k0, s, keys) ==
  IF Len(keys) <= 1 THEN s
  ELSE RemoveAllButOne(k0, StrategyRemove(k0, s, Head(keys).key).s, Tail(keys))

\* Cache.clear: remove every key of list(strategy.cache.keys()), then reset stats
RECURSIVE RemoveAll(_, _, _)
RemoveAll(k0, s, keys) ==
  IF keys = <<>> THEN s
  ELSE RemoveAll(k0, StrategyRemove(k0, s, Head(keys).key).s, Tail(keys))

CacheClear(k0, s) == [s |-> RemoveAll(k0, s, s.cache), stats |-> [hits |-> 0, misses |-> 0]]

\* hits / total: the quotient as a fraction in lowest terms
RECURSIVE GCD(_, _)
GCD(a, b) == IF b = 0 THEN a ELSE GCD(b, a % b)

Ratio(a, b) == [num |-> a \div GCD(a, b), den |-> b \div GCD(a, b)]

\* the 0 of "else 0"
Zero == [num |-> 0, den |-> 1]

\* get_stats without the test of total: it divides by total whatever it is
\* (den = 0 stands for the ZeroDivisionError)
CacheGetStatsUnguarded(s, st, cap) ==
  LET total == st.hits + st.misses
  IN  [hits |-> st.hits,
       misses |-> st.misses,
       hit_rate |-> IF total > 0 THEN Ratio(st.hits, total) ELSE [num |-> st.hits, den |-> 0],
       size |-> StrategySize(s),
       capacity |-> cap]

\* Cache.get_stats
CacheGetStats(s, st, cap) ==
  LET total == st.hits + st.misses
  IN  [hits |-> st.hits,
       misses |-> st.misses,
       hit_rate |-> IF total > 0 THEN Ratio(st.hits, total) ELSE Zero,
       size |-> StrategySize(s),
       capacity |-> cap]

\* the heappush calls of one _rebuild_heap: one for each key of the dict
RebuildPushes(k0, s) == IF k0 = "LFU" THEN Len(s.cache) ELSE 0

\* the heappush calls of Cache.clear: a rebuild after each key's removal
RECURSIVE ClearPushes(_, _)
ClearPushes(k0, n) == IF k0 = "LRU" \/ n = 0 THEN 0 ELSE (n - 1) + ClearPushes(k0, n - 1)

\* ------------------------------------------------ the cache's state
Strat == [cache |-> cache, freq |-> freq, access_time |-> access_time, min_heap |-> min_heap]

SetStrat(s) ==
  /\ cache' = s.cache
  /\ freq' = s.freq
  /\ access_time' = s.access_time
  /\ min_heap' = s.min_heap

\* datetime.now(): the clock has not gone back since it was last read; two
\* reads may return the same value.
Nows == {n \in {clock, clock + 1} : n <= MaxClock}

\* the frequency counter is unbounded in the code; the model stops counting at MaxFreq
FreqRoom(key) == kind = "LFU" /\ Has(cache, key) => freq[key] < MaxFreq

Called(name, key, value, present) ==
  [name |-> name, key |-> key, value |-> value, present |-> present]

\* The history variable recency: a key is moved to the end when a get finds it
\* or a put stores it, and leaves when it is removed or evicted.
Without(rec, key) == SelectSeq(rec, LAMBDA k : k # key)

Touched(rec, key, stored) == IF stored THEN Append(Without(rec, key), key) ELSE rec

\* What the history records of a call: its key, whether it ran the producer,
\* what the producer returned, whether the call raised, what it returned,
\* whether it changed the stored keys or values, whether it was waiting for the
\* key's lock when another thread's producer raised for that key, and whether
\* it is a retry: made for a key that is not stored, after a call for that key
\* had failed, while no other call was under way, and none was made since;
\* whether it found the key's entry in key_locks, how many times it has read
\* the cache, and where the exception that ended it came from: "producer", or
\* the name of an exception raised by the cache or by get_or_compute itself.
NoCall == [key |-> None, ran |-> FALSE, produced |-> None, raised |-> FALSE, result |-> None,
           wrote |-> FALSE, sawFail |-> FALSE, retry |-> FALSE, found |-> FALSE, reads |-> 0,
           error |-> NoError]

\* CacheFactory.create_lru_cache / create_lfu_cache(capacity)
InitCache ==
  /\ kind \in Kinds
  /\ capacity \in Capacities
  /\ cache = <<>>
  /\ freq = EmptyMap
  /\ access_time = EmptyMap
  /\ min_heap = <<>>
  /\ stats = [hits |-> 0, misses |-> 0]
  /\ clock = 0

\* the locals of a thread that is not in get_or_compute
NoFrame == [key |-> None, lock |-> None, value |-> None]

\* CacheStampedePrevention.__init__, and threads that have not called yet
InitThreads ==
  /\ key_locks = EmptyMap
  /\ global_lock = None
  /\ holder = [l \in LockIds |-> None]
  /\ pc = [t \in Threads |-> "idle"]
  /\ local = [t \in Threads |-> NoFrame]
  /\ call = [t \in Threads |-> NoCall]
  /\ started = [calls |-> 0, failed |-> {}]

\* ThreadSafeCache.__init__, and the history's Cache, which is empty too
InitGuard ==
  /\ lock = None
  /\ lin = [s |-> Strat, stats |-> stats]

\* one caller and a plain Cache: create_lru_cache(capacity), create_lfu_cache(capacity)
Init ==
  /\ InitCache
  /\ op = Called("init", None, None, FALSE)
  /\ ret = None
  /\ error = NoError
  /\ pushes = 0
  /\ recency = <<>>
  /\ InitThreads
  /\ thread_safe = FALSE
  /\ InitGuard

\* Cache.get(key)
Get(key) ==
  /\ stats.hits + stats.misses < MaxGets
  /\ FreqRoom(key)
  /\ \E now \in (IF kind = "LFU" /\ Has(cache, key) THEN Nows ELSE {clock}) :
       \E r \in {CacheGet(kind, Strat, stats, key, now)} :
           /\ SetStrat(r.s)
           /\ stats' = r.stats
           /\ clock' = now
           /\ ret' = r.ret
           /\ pushes' = IF Has(cache, key) THEN RebuildPushes(kind, r.s) ELSE 0
  /\ error' = NoError
  /\ op' = Called("get", key, None, Has(cache, key))
  /\ recency' = Touched(recency, key, Has(cache, key))
  /\ UNCHANGED <<kind, capacity>>
  /\ UNCHANGED threadVars
  /\ UNCHANGED guardVars

\* Cache.put(key, value)
Put(key, value) ==
  /\ FreqRoom(key)
  /\ \E now \in (IF kind = "LFU" THEN Nows ELSE {clock}) :
       \E r \in {CachePut(kind, Strat, capacity, key, value, now)} :
           /\ SetStrat(r.s)
           /\ clock' = now
           /\ ret' = r.ret
           /\ error' = r.error
           /\ recency' = IF r.error = NoError THEN Touched(Without(recency, r.ret), key, TRUE)
                         ELSE recency
           /\ pushes' = IF r.error = NoError THEN RebuildPushes(kind, r.s) ELSE 0
  /\ op' = Called("put", key, value, Has(cache, key))
  /\ UNCHANGED <<kind, capacity, stats>>
  /\ UNCHANGED threadVars
  /\ UNCHANGED guardVars

\* Cache.remove(key)
Remove(key) ==
  /\ \E r \in {CacheRemove(kind, Strat, key)} :
         /\ SetStrat(r.s)
         /\ ret' = r.ret
         /\ pushes' = IF Has(cache, key) THEN RebuildPushes(kind, r.s) ELSE 0
  /\ error' = NoError
  /\ op' = Called("remove", key, None, Has(cache, key))
  /\ recency' = Without(recency, key)
  /\ UNCHANGED <<kind, capacity, stats, clock>>
  /\ UNCHANGED threadVars
  /\ UNCHANGED guardVars

\* Cache.clear()
Clear ==
  /\ \E r \in {CacheClear(kind, Strat)} :
         /\ SetStrat(r.s)
         /\ stats' = r.stats
  /\ ret' = None
  /\ error' = NoError
  /\ pushes' = ClearPushes(kind, Len(cache))
  /\ op' = Called("clear", None, None, FALSE)
  /\ recency' = <<>>
  /\ UNCHANGED <<kind, capacity, clock>>
  /\ UNCHANGED threadVars
  /\ UNCHANGED guardVars

\* Cache.size()
Size ==
  /\ ret' = StrategySize(Strat)
  /\ error' = NoError
  /\ pushes' = 0
  /\ op' = Called("size", None, None, FALSE)
  /\ UNCHANGED <<cacheVars, recency>>
  /\ UNCHANGED threadVars
  /\ UNCHANGED guardVars

\* Cache.get_stats()
GetStats ==
  /\ ret' = CacheGetStats(Strat, stats, capacity)
  /\ error' = IF ret'.hit_rate.den = 0 THEN "ZeroDivisionError" ELSE NoError
  /\ pushes' = 0
  /\ op' = Called("get_stats", None, None, FALSE)
  /\ UNCHANGED <<cacheVars, recency>>
  /\ UNCHANGED threadVars
  /\ UNCHANGED guardVars

Next ==
  \/ \E key \in Keys : Get(key)
  \/ \E key \in Keys, value \in Storable : Put(key, value)
  \/ \E key \in Keys : Remove(key)
  \/ Clear

Spec == Init /\ [][Next]_vars



\* ------------------------------------------- CacheStampedePrevention
\* Threads run get_or_compute over one shared cache.  A call of cache.get or
\* cache.put takes two steps: the ThreadSafeCache's lock is acquired, and then
\* the Cache's method runs and the lock is released (the method is one step:
\* no other thread is in the Cache while the lock is held).
\* pc names the line a thread is about to run:
\*   "get1"     279  value = self.cache.get(key)
\*   "read1"    168  return self.cache.get(key), inside the ThreadSafeCache
\*   "glock1"   284  with self.global_lock:
\*   "registry" 285  look the key's lock up, creating it if there is none
\*   "lock"     290  with lock:
\*   "get2"     292  value = self.cache.get(key)
\*   "read2"    168  return self.cache.get(key), inside the ThreadSafeCache
\*   "compute"  297  value = compute_func(key), the producer is running
\*   "put"      298  self.cache.put(key, value)
\*   "store"    172  return self.cache.put(key, value), inside the ThreadSafeCache
\*   "glock2"   301  with self.global_lock:
\*   "cleanup"  302  delete the key's entry of key_locks
\*   "unlock"   305  return value, leaving the with block
InCall == {"get1", "read1", "glock1", "registry", "lock", "get2", "read2", "compute", "put",
           "store", "glock2", "cleanup", "unlock"}

\* the keys and values stored
Contents(c) == [k \in KeysOf(c) |-> ValueOf(c, k)]

\* Lock(): a new lock object, one that nothing refers to
LocksInUse == {key_locks[k] : k \in DOMAIN key_locks} \cup {local[t].lock : t \in Threads}

NewLock == CHOOSE l \in LockIds \ LocksInUse : \A m \in LockIds \ LocksInUse : l <= m

SetPc(t, label) == pc' = [pc EXCEPT ![t] = label]

\* the with block of the key's lock and the call are left: the lock is
\* released, and the frame is gone
Released(t) ==
  /\ holder' = [holder EXCEPT ![local[t].lock] = None]
  /\ local' = [local EXCEPT ![t] = NoFrame]

NotesWrite(t, c) == call' = [call EXCEPT ![t].wrote = @ \/ Contents(c) # Contents(cache)]

\* a thread calls get_or_compute(key, compute_func)
Call(t, key) ==
  /\ pc[t] \in {"idle", "done"}
  /\ started.calls < MaxCalls
  /\ SetPc(t, "get1")
  /\ local' = [local EXCEPT ![t] = [key |-> key, lock |-> None, value |-> None]]
  /\ call' = [u \in Threads |->
                IF u = t
                THEN [NoCall EXCEPT !.key = key,
                                    !.retry = /\ key \in started.failed
                                              /\ ~Has(cache, key)
                                              /\ \A w \in Threads \ {t} : pc[w] \notin InCall]
                ELSE [call[u] EXCEPT !.retry = FALSE]]
  /\ started' = [started EXCEPT !.calls = @ + 1]
  /\ UNCHANGED <<cacheVars, callerVars, recency, key_locks, global_lock, holder>>
  /\ UNCHANGED guardVars

\* lines 279, 292 and 298: the call of self.cache.get or self.cache.put.  A
\* ThreadSafeCache acquires its lock first (lines 167 and 171: with self.lock);
\* a plain Cache runs the call with no lock.
EnterCache(t) ==
  /\ pc[t] \in {"get1", "get2", "put"}
  /\ thread_safe => lock = None
  /\ lock' = IF thread_safe THEN t ELSE lock
  /\ SetPc(t, CASE pc[t] = "get1" -> "read1" [] pc[t] = "get2" -> "read2" [] pc[t] = "put" -> "store")
  /\ UNCHANGED <<cacheVars, callerVars, recency, threadLocks, local, call, started, thread_safe, lin>>

\* line 279 (first = TRUE) or 292: Cache.get(key), the release of the
\* ThreadSafeCache's lock, and the return of a value that is not None
ReadCache(t, first) ==
  \E now \in (IF kind = "LFU" /\ Has(cache, local[t].key) THEN Nows ELSE {clock}) :
  \E r \in {CacheGet(kind, Strat, stats, local[t].key, now)} :
    /\ SetStrat(r.s)
    /\ stats' = r.stats
    /\ clock' = now
    /\ recency' = Touched(recency, local[t].key, Has(cache, local[t].key))
    /\ IF r.ret # None
       THEN /\ SetPc(t, "done")
            /\ call' = [call EXCEPT ![t].result = r.ret,
                                    ![t].reads = @ + 1,
                                    ![t].wrote = @ \/ Contents(r.s.cache) # Contents(cache)]
            /\ local' = [local EXCEPT ![t] = NoFrame]
            /\ IF first THEN UNCHANGED holder
                        ELSE holder' = [holder EXCEPT ![local[t].lock] = None]
       ELSE /\ SetPc(t, IF first THEN "glock1" ELSE "compute")
            /\ call' = [call EXCEPT ![t].reads = @ + 1,
                                    ![t].wrote = @ \/ Contents(r.s.cache) # Contents(cache)]
            /\ local' = [local EXCEPT ![t].value = r.ret]
            /\ UNCHANGED holder
    /\ lock' = None
    /\ UNCHANGED <<kind, capacity, callerVars, key_locks, global_lock, started, thread_safe, lin>>

FirstGet(t) == pc[t] = "read1" /\ ReadCache(t, TRUE)

\* lines 284 and 301: global_lock is acquired
AcquireGlobal(t) ==
  /\ pc[t] \in {"glock1", "glock2"}
  /\ global_lock = None
  /\ global_lock' = t
  /\ SetPc(t, IF pc[t] = "glock1" THEN "registry" ELSE "cleanup")
  /\ UNCHANGED <<cacheVars, callerVars, recency, key_locks, holder, local, call, started>>
  /\ UNCHANGED guardVars

\* lines 285-287 in a with block that reaches to the end of the call:
\* global_lock stays held
RegistryKeepsGlobal(t) ==
  /\ pc[t] = "registry"
  /\ key_locks' = IF local[t].key \in DOMAIN key_locks THEN key_locks
                  ELSE MapSet(key_locks, local[t].key, NewLock)
  /\ local' = [local EXCEPT ![t].lock = key_locks'[local[t].key]]
  /\ SetPc(t, "lock")
  /\ call' = [call EXCEPT ![t].found = local[t].key \in DOMAIN key_locks]
  /\ UNCHANGED <<cacheVars, callerVars, recency, holder, started, global_lock>>
  /\ UNCHANGED guardVars

\* lines 285-287, and global_lock is released
Registry(t) ==
  /\ pc[t] = "registry"
  /\ key_locks' = IF local[t].key \in DOMAIN key_locks THEN key_locks
                  ELSE MapSet(key_locks, local[t].key, NewLock)
  /\ local' = [local EXCEPT ![t].lock = key_locks'[local[t].key]]
  /\ global_lock' = None
  /\ SetPc(t, "lock")
  /\ call' = [call EXCEPT ![t].found = local[t].key \in DOMAIN key_locks]
  /\ UNCHANGED <<cacheVars, callerVars, recency, holder, started>>
  /\ UNCHANGED guardVars

\* line 290 without the wait: the thread goes on whoever holds the lock
AcquireKeyLockNoWait(t) ==
  /\ pc[t] = "lock"
  /\ holder' = [holder EXCEPT ![local[t].lock] = t]
  /\ SetPc(t, "get2")
  /\ UNCHANGED <<cacheVars, callerVars, recency, key_locks, global_lock, local, call, started>>
  /\ UNCHANGED guardVars

\* line 290 without the double-check: the producer runs as soon as the lock is held
AcquireKeyLockSkipsCheck(t) ==
  /\ pc[t] = "lock"
  /\ holder[local[t].lock] = None
  /\ holder' = [holder EXCEPT ![local[t].lock] = t]
  /\ SetPc(t, "compute")
  /\ UNCHANGED <<cacheVars, callerVars, recency, key_locks, global_lock, local, call, started>>
  /\ UNCHANGED guardVars

\* line 290 without the lock: the thread goes on and holds nothing
AcquireKeyLockNotHeld(t) ==
  /\ pc[t] = "lock"
  /\ SetPc(t, "get2")
  /\ UNCHANGED <<cacheVars, callerVars, recency, key_locks, global_lock, holder, local, call,
                 started>>
  /\ UNCHANGED guardVars

\* line 290: the key's lock is acquired
AcquireKeyLock(t) ==
  /\ pc[t] = "lock"
  /\ holder[local[t].lock] = None
  /\ holder' = [holder EXCEPT ![local[t].lock] = t]
  /\ SetPc(t, "get2")
  /\ UNCHANGED <<cacheVars, callerVars, recency, key_locks, global_lock, local, call, started>>
  /\ UNCHANGED guardVars

\* lines 292-294: the second read of the cache
SecondGet(t) == pc[t] = "read2" /\ ReadCache(t, FALSE)

\* a producer's return that gives the key's lock up before the value is stored
ProducerReturnsUnlocks(t, value) ==
  /\ pc[t] = "compute"
  /\ local' = [local EXCEPT ![t].value = value]
  /\ call' = [call EXCEPT ![t].ran = TRUE, ![t].produced = value]
  /\ holder' = [holder EXCEPT ![local[t].lock] = None]
  /\ SetPc(t, "put")
  /\ UNCHANGED <<cacheVars, callerVars, recency, key_locks, global_lock, started>>
  /\ UNCHANGED guardVars

\* line 297: the producer returns a value
ProducerReturns(t, value) ==
  /\ pc[t] = "compute"
  /\ local' = [local EXCEPT ![t].value = value]
  /\ call' = [call EXCEPT ![t].ran = TRUE, ![t].produced = value]
  /\ SetPc(t, "put")
  /\ UNCHANGED <<cacheVars, callerVars, recency, key_locks, global_lock, holder, started>>
  /\ UNCHANGED guardVars

\* the raise of a producer that also ends, with the error, every call that is
\* waiting for the key's lock
ProducerRaisesFanOut(t) ==
  /\ pc[t] = "compute"
  /\ holder' = [holder EXCEPT ![local[t].lock] = None]
  /\ local' = [u \in Threads |->
                 IF u = t \/ (pc[u] = "lock" /\ local[u].lock = local[t].lock)
                 THEN NoFrame ELSE local[u]]
  /\ pc' = [u \in Threads |->
              IF u = t \/ (pc[u] = "lock" /\ local[u].lock = local[t].lock)
              THEN "done" ELSE pc[u]]
  /\ call' = [u \in Threads |->
                IF u = t THEN [call[t] EXCEPT !.ran = TRUE, !.raised = TRUE]
                ELSE IF pc[u] = "lock" /\ local[u].lock = local[t].lock
                     THEN [call[u] EXCEPT !.sawFail = TRUE, !.raised = TRUE]
                     ELSE call[u]]
  /\ started' = [started EXCEPT !.failed = @ \cup {local[t].key}]
  /\ UNCHANGED <<cacheVars, callerVars, recency, key_locks, global_lock>>
  /\ UNCHANGED guardVars

\* the raise of a producer that leaves the key's lock held
ProducerRaisesKeepsLock(t) ==
  /\ pc[t] = "compute"
  /\ local' = [local EXCEPT ![t] = NoFrame]
  /\ SetPc(t, "done")
  /\ call' = [u \in Threads |->
                IF u = t THEN [call[t] EXCEPT !.ran = TRUE, !.raised = TRUE]
                ELSE IF pc[u] = "lock" /\ local[u].lock = local[t].lock
                     THEN [call[u] EXCEPT !.sawFail = TRUE]
                     ELSE call[u]]
  /\ started' = [started EXCEPT !.failed = @ \cup {local[t].key}]
  /\ UNCHANGED <<cacheVars, callerVars, recency, key_locks, global_lock, holder>>
  /\ UNCHANGED guardVars

\* the raise of a producer whose failure is cached: None is stored for the key
ProducerRaisesCachesNone(t) ==
  /\ pc[t] = "compute"
  /\ Released(t)
  /\ SetPc(t, "done")
  /\ \E r \in {CachePut(kind, Strat, capacity, local[t].key, None, clock)} :
       /\ SetStrat(r.s)
       /\ recency' = Touched(Without(recency, r.ret), local[t].key, TRUE)
       /\ call' = [call EXCEPT ![t].ran = TRUE, ![t].raised = TRUE,
                               ![t].wrote = @ \/ Contents(r.s.cache) # Contents(cache)]
  /\ started' = [started EXCEPT !.failed = @ \cup {local[t].key}]
  /\ UNCHANGED <<kind, capacity, stats, clock, callerVars, key_locks, global_lock>>
  /\ UNCHANGED guardVars

\* line 297: the producer raises, and the exception leaves the with block and
\* the call
ProducerRaises(t) ==
  /\ pc[t] = "compute"
  /\ Released(t)
  /\ SetPc(t, "done")
  /\ call' = [u \in Threads |->
                IF u = t THEN [call[t] EXCEPT !.ran = TRUE, !.raised = TRUE, !.error = "producer"]
                ELSE IF pc[u] = "lock" /\ local[u].lock = local[t].lock
                     THEN [call[u] EXCEPT !.sawFail = TRUE]
                     ELSE call[u]]
  /\ started' = [started EXCEPT !.failed = @ \cup {local[t].key}]
  /\ UNCHANGED <<cacheVars, callerVars, recency, key_locks, global_lock>>
  /\ UNCHANGED guardVars

\* line 298: Cache.put(key, value), and the release of the ThreadSafeCache's lock
StorePut(t) ==
  /\ pc[t] = "store"
  /\ \E now \in (IF kind = "LFU" THEN Nows ELSE {clock}) :
     \E r \in {CachePut(kind, Strat, capacity, local[t].key, local[t].value, now)} :
       /\ SetStrat(r.s)
       /\ clock' = now
       /\ IF r.error = NoError
          THEN /\ recency' = Touched(Without(recency, r.ret), local[t].key, TRUE)
               /\ NotesWrite(t, r.s.cache)
               /\ SetPc(t, "glock2")
               /\ UNCHANGED <<holder, local>>
          ELSE \* the exception leaves the with block and the call
               /\ recency' = recency
               /\ call' = [call EXCEPT ![t].raised = TRUE, ![t].error = r.error]
               /\ SetPc(t, "done")
               /\ Released(t)
  /\ lock' = None
  /\ UNCHANGED <<kind, capacity, stats, callerVars, key_locks, global_lock, started,
                 thread_safe, lin>>

\* a cleanup that leaves its with block without releasing global_lock
CleanupKeepsGlobal(t) ==
  /\ pc[t] = "cleanup"
  /\ key_locks' = IF local[t].key \in DOMAIN key_locks THEN MapDel(key_locks, local[t].key)
                  ELSE key_locks
  /\ SetPc(t, "unlock")
  /\ UNCHANGED <<cacheVars, callerVars, recency, global_lock, holder, local, call, started>>
  /\ UNCHANGED guardVars

\* a cleanup that deletes the registry's entry without looking for it: the del
\* raises KeyError when another call has deleted the entry already
CleanupUnchecked(t) ==
  /\ pc[t] = "cleanup"
  /\ IF local[t].key \in DOMAIN key_locks
     THEN /\ key_locks' = MapDel(key_locks, local[t].key)
          /\ call' = call
     ELSE /\ key_locks' = key_locks
          /\ call' = [call EXCEPT ![t].raised = TRUE, ![t].error = "KeyError"]
  /\ global_lock' = None
  /\ SetPc(t, "unlock")
  /\ UNCHANGED <<cacheVars, callerVars, recency, holder, local, started>>
  /\ UNCHANGED guardVars

\* lines 302-303, and global_lock is released
Cleanup(t) ==
  /\ pc[t] = "cleanup"
  /\ key_locks' = IF local[t].key \in DOMAIN key_locks THEN MapDel(key_locks, local[t].key)
                  ELSE key_locks
  /\ global_lock' = None
  /\ SetPc(t, "unlock")
  /\ UNCHANGED <<cacheVars, callerVars, recency, holder, local, call, started>>
  /\ UNCHANGED guardVars

\* a return that loses the producer's value: the call returns None
ReturnDropsValue(t) ==
  /\ pc[t] = "unlock"
  /\ Released(t)
  /\ call' = [call EXCEPT ![t].result = None]
  /\ SetPc(t, "done")
  /\ UNCHANGED <<cacheVars, callerVars, recency, key_locks, global_lock, started>>
  /\ UNCHANGED guardVars

\* line 305: return value, which leaves the with block of the key's lock
Return(t) ==
  /\ pc[t] = "unlock"
  /\ Released(t)
  /\ call' = [call EXCEPT ![t].result = local[t].value]
  /\ SetPc(t, "done")
  /\ UNCHANGED <<cacheVars, callerVars, recency, key_locks, global_lock, started>>
  /\ UNCHANGED guardVars

\* one step of a call that is under way; what the producer does is its own
Step(t) ==
  \/ EnterCache(t)
  \/ FirstGet(t)
  \/ AcquireGlobal(t)
  \/ Registry(t)
  \/ AcquireKeyLock(t)
  \/ SecondGet(t)
  \/ StorePut(t)
  \/ Cleanup(t)
  \/ Return(t)

\* The coordinator over CacheFactory.create_lru_cache(capacity, thread_safe=True)
InitStampede ==
  /\ InitCache
  /\ kind = "LRU"
  /\ capacity = 1
  /\ op = Called("init", None, None, FALSE)
  /\ ret = None
  /\ error = NoError
  /\ pushes = 0
  /\ recency = <<>>
  /\ InitThreads
  /\ thread_safe = TRUE
  /\ InitGuard

StampedeKeys == {1, 2}

\* the threads that call in StampedeSpec; the others stay idle
Callers == {1, 2}

NextStampede ==
  \E t \in Callers :
    \/ \E key \in StampedeKeys : Call(t, key)
    \/ Step(t)
    \/ \E value \in Storable : ProducerReturns(t, value)
    \/ ProducerRaises(t)

StampedeSpec == InitStampede /\ [][NextStampede]_vars

\* the producer of thread t's call ends: it returns or it raises
ProducerEnds(t) ==
  \/ \E value \in Storable : ProducerReturns(t, value)
  \/ ProducerRaises(t)

\* every thread calls get_or_compute once, for either key, with a producer
\* that returns or raises
NextOnce ==
  \E t \in Threads :
    \/ pc[t] = "idle" /\ \E key \in StampedeKeys : Call(t, key)
    \/ Step(t)
    \/ ProducerEnds(t)

\* the calls under a fair scheduler and with producers that terminate: a
\* thread that can take its next step takes it, and a producer that runs ends
FairStampedeSpec ==
  /\ InitStampede
  /\ [][NextOnce]_vars
  /\ \A t \in Threads : WF_vars(Step(t) \/ ProducerEnds(t))

\* N threads each call get_or_compute once, all for the same key, which is
\* absent, with a producer that returns a value that is not None; nothing else
\* uses the cache.
NextSameKey ==
  \E t \in Threads :
    \/ pc[t] = "idle" /\ Call(t, 1)
    \/ Step(t)
    \/ \E value \in Values : ProducerReturns(t, value)

SameKeySpec == InitStampede /\ [][NextSameKey]_vars

\* the capacities a caller may ask for: no constructor checks the number
Requested == {-1, 0, 1}

\* CacheFactory.create_lru_cache / create_lfu_cache(capacity) for any capacity
InitAnyCapacity ==
  /\ kind \in Kinds
  /\ capacity \in Requested
  /\ cache = <<>>
  /\ freq = EmptyMap
  /\ access_time = EmptyMap
  /\ min_heap = <<>>
  /\ stats = [hits |-> 0, misses |-> 0]
  /\ clock = 0
  /\ op = Called("init", None, None, FALSE)
  /\ ret = None
  /\ error = NoError
  /\ pushes = 0
  /\ recency = <<>>
  /\ InitThreads
  /\ thread_safe = FALSE
  /\ InitGuard

\* The six operations of a Cache, on two keys
NextStats ==
  \/ \E key \in StampedeKeys : Get(key)
  \/ \E key \in StampedeKeys, value \in Storable : Put(key, value)
  \/ \E key \in StampedeKeys : Remove(key)
  \/ Clear
  \/ Size
  \/ GetStats

StatsSpec == Init /\ [][NextStats]_vars

AnyCapacitySpec == InitAnyCapacity /\ [][NextStats]_vars

\* The coordinator over the cache the factory returns, wrapped in a
\* ThreadSafeCache (thread_safe=True) or not (the default): get_or_compute
\* calls self.cache.get and self.cache.put on whichever it was given.  The
\* plain Cache's methods are taken as one step each here too, which leaves out
\* what two threads inside them at once can do to the dictionaries.
InitAnyCache ==
  /\ InitCache
  /\ kind = "LRU"
  /\ capacity = 1
  /\ op = Called("init", None, None, FALSE)
  /\ ret = None
  /\ error = NoError
  /\ pushes = 0
  /\ recency = <<>>
  /\ InitThreads
  /\ thread_safe \in BOOLEAN
  /\ InitGuard

AnyCacheSpec == InitAnyCache /\ [][NextSameKey]_vars

\* ------------------------------------------------- the system's clock
\* datetime.now() reads the system's local wall clock, which is no monotonic
\* clock: a step of NTP, an administrator, or the end of daylight saving time
\* sets it back, and the next reading is earlier than the last one.
ClockSetBack ==
  /\ clock > 0
  /\ clock' = clock - 1
  /\ op' = Called("set_back", None, None, FALSE)
  /\ ret' = None
  /\ error' = NoError
  /\ pushes' = 0
  /\ UNCHANGED <<kind, capacity, cache, freq, access_time, min_heap, stats, recency>>
  /\ UNCHANGED threadVars
  /\ UNCHANGED guardVars

NextWallClock ==
  \/ \E key \in Keys : Get(key)
  \/ \E key \in Keys, value \in Storable : Put(key, value)
  \/ \E key \in Keys : Remove(key)
  \/ Clear
  \/ ClockSetBack

WallClockSpec == Init /\ [][NextWallClock]_vars

\* ------------------------------------------------------ CacheFactory
\* One caller uses the handle the factory returned: the Cache itself, or with
\* thread_safe = True a ThreadSafeCache around it.  With one caller the
\* wrapper's get, put, remove, size and clear are the Cache's, run between the
\* acquisition and the release of a lock nobody else asks for.
InitFactory ==
  /\ InitCache
  /\ op = Called("init", None, None, FALSE)
  /\ ret = None
  /\ error = NoError
  /\ pushes = 0
  /\ recency = <<>>
  /\ InitThreads
  /\ thread_safe \in BOOLEAN
  /\ InitGuard

\* handle.get_stats(): ThreadSafeCache defines no get_stats and no
\* __getattr__, so that the attribute lookup raises AttributeError
HandleGetStats ==
  IF thread_safe
  THEN /\ ret' = None
       /\ error' = "AttributeError"
       /\ pushes' = 0
       /\ op' = Called("get_stats", None, None, FALSE)
       /\ UNCHANGED <<cacheVars, recency>>
       /\ UNCHANGED threadVars
       /\ UNCHANGED guardVars
  ELSE GetStats

NextFactory ==
  \/ \E key \in StampedeKeys : Get(key)
  \/ \E key \in StampedeKeys, value \in Storable : Put(key, value)
  \/ \E key \in StampedeKeys : Remove(key)
  \/ Clear
  \/ Size
  \/ HandleGetStats

FactorySpec == InitFactory /\ [][NextFactory]_vars

\* --------------------------------------------------- ThreadSafeCache
\* Threads call get, put, remove, size and clear of one ThreadSafeCache.  pc
\* names the line a thread is about to run:
\*   "with_get", "with_put", "with_remove", "with_size", "with_clear"
\*                     167, 171, 175, 179, 183  with self.lock:
\*   "in_get"          200  value = self.strategy.get(key)
\*   "in_get_stats"    202  the hit or the miss is counted, and value returned
\*   "in_put"          209  Cache.put
\*   "in_remove"       217  Cache.remove
\*   "in_size"         221  Cache.size
\*   "in_clear"        225  Cache.clear removes the keys
\*   "in_clear_stats"  230  Cache.clear resets stats
Methods == {"get", "put", "remove", "size", "clear"}

WithLabel == [get |-> "with_get", put |-> "with_put", remove |-> "with_remove",
              size |-> "with_size", clear |-> "with_clear"]

InLabel == [with_get |-> "in_get", with_put |-> "in_put", with_remove |-> "in_remove",
            with_size |-> "in_size", with_clear |-> "in_clear"]

Waiting == {WithLabel[m] : m \in Methods}

\* the pcs at which a thread is inside a with self.lock block
InGuard == {"in_get", "in_get_stats", "in_put", "in_remove", "in_size", "in_clear",
            "in_clear_stats"}

\* the method a thread inside the ThreadSafeCache is running
MethodAt == [in_get |-> "get", in_get_stats |-> "get", in_put |-> "put", in_remove |-> "remove",
             in_size |-> "size", in_clear |-> "clear", in_clear_stats |-> "clear"]

\* Cache.<method> run on the cache object l = [s, stats], as one caller runs it
Sequential(method, l, key, value, now) ==
  CASE method = "get" -> CacheGet(kind, l.s, l.stats, key, now)
    [] method = "put" -> [s |-> CachePut(kind, l.s, capacity, key, value, now).s, stats |-> l.stats,
                          ret |-> CachePut(kind, l.s, capacity, key, value, now).ret]
    [] method = "remove" -> [s |-> CacheRemove(kind, l.s, key).s, stats |-> l.stats,
                             ret |-> CacheRemove(kind, l.s, key).ret]
    [] method = "size" -> [s |-> l.s, stats |-> l.stats, ret |-> StrategySize(l.s)]
    [] method = "clear" -> [s |-> CacheClear(kind, l.s).s, stats |-> CacheClear(kind, l.s).stats,
                            ret |-> None]

\* the history's Cache runs the call that thread t completes
Linearized(t, now) ==
  \E r \in {Sequential(MethodAt[pc[t]], lin, local[t].key, local[t].value, now)} :
    lin' = [s |-> r.s, stats |-> r.stats]

\* the with block and the method are left with a result
Leaves(t, result) ==
  /\ lock' = None
  /\ SetPc(t, "done")
  /\ call' = [call EXCEPT ![t].result = result]

\* a thread calls thread_safe.<method>(key, value)
GuardedCall(t, method, key, value) ==
  /\ pc[t] \in {"idle", "done"}
  /\ SetPc(t, WithLabel[method])
  /\ local' = [local EXCEPT ![t] = [key |-> key, lock |-> None, value |-> value]]
  /\ call' = [call EXCEPT ![t] = [NoCall EXCEPT !.key = key]]
  /\ UNCHANGED <<cacheVars, callerVars, recency, threadLocks, started, guardVars>>

\* the counters the model caps leave room for the call
GuardedRoom(t) ==
  /\ pc[t] = "with_get" => stats.hits + stats.misses < MaxGets
  /\ pc[t] \in {"with_get", "with_put"} => FreqRoom(local[t].key)

\* with self.lock, entered whoever holds the lock
GuardedEnterNoWait(t) ==
  /\ pc[t] \in Waiting
  /\ GuardedRoom(t)
  /\ lock' = t
  /\ SetPc(t, InLabel[pc[t]])
  /\ UNCHANGED <<cacheVars, callerVars, recency, threadLocks, local, call, started, thread_safe, lin>>

\* lines 167, 171, 175, 179, 183: with self.lock
GuardedEnter(t) ==
  /\ pc[t] \in Waiting
  /\ lock = None
  /\ GuardedRoom(t)
  /\ lock' = t
  /\ SetPc(t, InLabel[pc[t]])
  /\ UNCHANGED <<cacheVars, callerVars, recency, threadLocks, local, call, started, thread_safe, lin>>

\* line 200: value = self.strategy.get(key)
GuardedGetStrategy(t) ==
  /\ pc[t] = "in_get"
  /\ \E now \in (IF kind = "LFU" /\ Has(cache, local[t].key) THEN Nows ELSE {clock}) :
     \E r \in {StrategyGet(kind, Strat, local[t].key, now)} :
       /\ SetStrat(r.s)
       /\ clock' = now
       /\ local' = [local EXCEPT ![t].value = r.ret]
  /\ recency' = Touched(recency, local[t].key, Has(cache, local[t].key))
  /\ SetPc(t, "in_get_stats")
  /\ UNCHANGED <<kind, capacity, stats, callerVars, threadLocks, call, started, guardVars>>

\* lines 202-205: the hit or the miss is counted and the value returned
GuardedGetStats(t) ==
  /\ pc[t] = "in_get_stats"
  /\ stats' = IF local[t].value # None THEN [stats EXCEPT !.hits = @ + 1]
                                       ELSE [stats EXCEPT !.misses = @ + 1]
  /\ Linearized(t, clock)
  /\ Leaves(t, local[t].value)
  /\ UNCHANGED <<kind, capacity, cache, freq, access_time, min_heap, clock, callerVars, recency,
                 threadLocks, local, started, thread_safe>>

\* line 172: return self.cache.put(key, value)
GuardedPut(t) ==
  /\ pc[t] = "in_put"
  /\ \E now \in (IF kind = "LFU" THEN Nows ELSE {clock}) :
     \E r \in {CachePut(kind, Strat, capacity, local[t].key, local[t].value, now)} :
       /\ SetStrat(r.s)
       /\ clock' = now
       /\ recency' = IF r.error = NoError
                     THEN Touched(Without(recency, r.ret), local[t].key, TRUE) ELSE recency
       /\ Linearized(t, now)
       /\ lock' = None
       /\ SetPc(t, "done")
       /\ call' = [call EXCEPT ![t].result = r.ret, ![t].raised = r.error # NoError,
                               ![t].error = r.error]
  /\ UNCHANGED <<kind, capacity, stats, callerVars, threadLocks, local, started, thread_safe>>

\* line 176: return self.cache.remove(key)
GuardedRemove(t) ==
  /\ pc[t] = "in_remove"
  /\ \E r \in {CacheRemove(kind, Strat, local[t].key)} :
       /\ SetStrat(r.s)
       /\ Leaves(t, r.ret)
  /\ recency' = Without(recency, local[t].key)
  /\ Linearized(t, clock)
  /\ UNCHANGED <<kind, capacity, stats, clock, callerVars, threadLocks, local, started, thread_safe>>

\* line 180: return self.cache.size()
GuardedSize(t) ==
  /\ pc[t] = "in_size"
  /\ Linearized(t, clock)
  /\ Leaves(t, StrategySize(Strat))
  /\ UNCHANGED <<cacheVars, callerVars, recency, threadLocks, local, started, thread_safe>>

\* a clear that gives the lock up once the keys are removed
GuardedClearKeysUnlocks(t) ==
  /\ pc[t] = "in_clear"
  /\ SetStrat(RemoveAll(kind, Strat, cache))
  /\ recency' = <<>>
  /\ SetPc(t, "in_clear_stats")
  /\ lock' = None
  /\ UNCHANGED <<kind, capacity, stats, clock, callerVars, threadLocks, local, call, started,
                 thread_safe, lin>>

\* lines 225-229: Cache.clear removes every key
GuardedClearKeys(t) ==
  /\ pc[t] = "in_clear"
  /\ SetStrat(RemoveAll(kind, Strat, cache))
  /\ recency' = <<>>
  /\ SetPc(t, "in_clear_stats")
  /\ UNCHANGED <<kind, capacity, stats, clock, callerVars, threadLocks, local, call, started,
                 guardVars>>

\* line 230: Cache.clear resets stats, and clear returns
GuardedClearStats(t) ==
  /\ pc[t] = "in_clear_stats"
  /\ stats' = [hits |-> 0, misses |-> 0]
  /\ Linearized(t, clock)
  /\ Leaves(t, None)
  /\ UNCHANGED <<kind, capacity, cache, freq, access_time, min_heap, clock, callerVars, recency,
                 threadLocks, local, started, thread_safe>>

\* CacheFactory.create_lru_cache / create_lfu_cache(capacity, thread_safe=True)
InitGuarded ==
  /\ InitCache
  /\ capacity = 1
  /\ op = Called("init", None, None, FALSE)
  /\ ret = None
  /\ error = NoError
  /\ pushes = 0
  /\ recency = <<>>
  /\ InitThreads
  /\ thread_safe = TRUE
  /\ InitGuard

NextGuarded ==
  \E t \in Callers :
    \/ \E method \in {"get", "remove"}, key \in StampedeKeys : GuardedCall(t, method, key, None)
    \/ \E key \in StampedeKeys, value \in Values : GuardedCall(t, "put", key, value)
    \/ \E method \in {"size", "clear"} : GuardedCall(t, method, None, None)
    \/ GuardedEnter(t)
    \/ GuardedGetStrategy(t)
    \/ GuardedGetStats(t)
    \/ GuardedPut(t)
    \/ GuardedRemove(t)
    \/ GuardedSize(t)
    \/ GuardedClearKeys(t)
    \/ GuardedClearStats(t)

GuardedSpec == InitGuarded /\ [][NextGuarded]_vars

\* ============================================================ claims
StoredKeys == KeysOf(cache)

\* the step is a put of a key that was not stored, into a full cache
PutsNewKeyWhenFull == op'.name = "put" /\ ~op'.present /\ Len(cache) >= capacity

\* the step is a put of a key that was stored
Overwrites == op'.name = "put" /\ op'.present

\* C3: after every get, put, remove and clear, for both strategies, size() is
\* at most the capacity and is the number of distinct keys stored.
CapacityInvariant ==
  /\ StrategySize(Strat) <= capacity
  /\ StrategySize(Strat) = Cardinality(StoredKeys)

\* C3 witness: a put has just evicted a key from a full LFU cache, which is
\* full again.
CapacityWitness ==
  /\ kind = "LFU"
  /\ op.name = "put"
  /\ ~op.present
  /\ ret # None
  /\ StrategySize(Strat) = capacity

\* The demonstration of main: capacity 3, put a, b, c, get a, put d.
LRUDemo ==
  LET c1 == LRUPut(<<>>, 3, 1, 1).cache
      c2 == LRUPut(c1, 3, 2, 2).cache
      c3 == LRUPut(c2, 3, 3, 3).cache
      c4 == LRUGet(c3, 1).cache
  IN  LRUPut(c4, 3, 4, 4)

\* C4: a put of a new key into a full LRU cache evicts the stored key whose
\* last access (a get that found it, or a put) is the oldest, and only that
\* key; in the demonstration (a, b, c, get a, put d) it evicts b and leaves
\* a, c and d.
LRUEvictsOldest ==
  /\ LRUDemo.ret = 2
  /\ KeysOf(LRUDemo.cache) = {1, 3, 4}
  /\ [][(kind = "LRU" /\ PutsNewKeyWhenFull)
           => /\ ret' = Head(recency)
              /\ StoredKeys' = (StoredKeys \ {Head(recency)}) \cup {op'.key}]_vars

\* C4 witness: an LRU cache of capacity 2 has just evicted a key on a put.
LRUEvictsWitness ==
  /\ kind = "LRU"
  /\ capacity = 2
  /\ op.name = "put"
  /\ ~op.present
  /\ ret # None
  /\ ret \notin StoredKeys

\* (frequency, last access time) of a stored key, and its lexicographic order
Rank(key) == <<freq[key], access_time[key]>>

RankLess(a, b) == a[1] < b[1] \/ (a[1] = b[1] /\ a[2] < b[2])

\* The demonstration of the LFU tie-break: capacity 3, put x, y, z, get x
\* twice, get y, put w, the clock read at 1, 2, ..., 7.
LFUDemo ==
  LET s0 == [cache |-> <<>>, freq |-> EmptyMap, access_time |-> EmptyMap, min_heap |-> <<>>]
      s1 == LFUPut(s0, 3, 1, 1, 1).s
      s2 == LFUPut(s1, 3, 2, 2, 2).s
      s3 == LFUPut(s2, 3, 3, 3, 3).s
      s4 == LFUGet(s3, 1, 4).s
      s5 == LFUGet(s4, 1, 5).s
      s6 == LFUGet(s5, 2, 6).s
  IN  LFUPut(s6, 3, 4, 4, 7)

\* C5: a put of a new key into a full LFU cache evicts a stored key of minimum
\* (frequency, last access time): no stored key has a lower frequency, and none
\* of the same frequency has an older access time; only that key leaves.  In
\* the demonstration (x, y, z, get x twice, get y, put w) it evicts z.
LFUEvictsMinimum ==
  /\ LFUDemo.ret = 3
  /\ KeysOf(LFUDemo.s.cache) = {1, 2, 4}
  /\ [][(kind = "LFU" /\ PutsNewKeyWhenFull)
           => /\ ret' \in StoredKeys
              /\ \A k \in StoredKeys : ~RankLess(Rank(k), Rank(ret'))
              /\ StoredKeys' = (StoredKeys \ {ret'}) \cup {op'.key}]_vars

\* C5 witness: an LFU cache of capacity 2 has just evicted a key on a put, and
\* the key it kept has frequency 1 too: the timestamps decided.
LFUEvictsWitness ==
  /\ kind = "LFU"
  /\ capacity = 2
  /\ op.name = "put"
  /\ ~op.present
  /\ ret # None
  /\ \E k \in StoredKeys : k # op.key /\ freq[k] = 1 /\ access_time[k] > 0

\* C6: put(k, v2) on a stored key k returns no evicted key, leaves the set of
\* stored keys as it was, and a get(k) that follows returns v2.
OverwriteKeepsKeys ==
  [][Overwrites
       => /\ ret' = None
          /\ StoredKeys' = StoredKeys
          /\ \A now \in Nows' : CacheGet(kind', Strat', stats', op'.key, now).ret = op'.value]_vars

\* C6 witness: a put has just overwritten a key of a full cache with a value
\* that is not None.
OverwriteWitness ==
  /\ op.name = "put"
  /\ op.present
  /\ StrategySize(Strat) = capacity
  /\ capacity = 2
  /\ ValueOf(cache, op.key) # None

\* ------------------------------------------------ get_or_compute
Done(t) == pc[t] = "done"

\* the pcs at which a thread is inside the with block of its key's lock
InWith == {"get2", "read2", "compute", "put", "store", "glock2", "cleanup", "unlock"}

\* C1: at no time are two executions of the producer for the same key in
\* progress.
OneProducerPerKey ==
  \A t, u \in Threads :
    (t # u /\ pc[t] = "compute" /\ pc[u] = "compute") => local[t].key # local[u].key

\* C2: when N threads call get_or_compute for the same absent key, with a
\* producer that returns a value that is not None and nothing else using the
\* cache, at most one execution of the producer has begun at any time, and once
\* all N calls have returned the producer has run exactly once and all N calls
\* have returned the same value.
SingleExecution ==
  /\ Cardinality({t \in Threads : pc[t] = "compute" \/ call[t].ran}) <= 1
  /\ (\A t \in Threads : Done(t)) =>
       /\ Cardinality({t \in Threads : call[t].ran}) = 1
       /\ \A t, u \in Threads : ~call[t].raised /\ call[t].result = call[u].result
       /\ \A t \in Threads : call[t].result \in Values

\* C2 witness: all the threads have returned, and every one of them had found
\* the key absent at its first read (N misses, and the second miss of the one
\* that ran the producer).
SingleExecutionWitness ==
  /\ \A t \in Threads : Done(t)
  /\ stats.misses = Cardinality(Threads) + 1

RetryAfterFailure ==
  \A t \in Threads :
    call[t].retry =>
      /\ pc[t] \in {"glock1", "glock2"} => global_lock = None
      /\ pc[t] = "lock" => holder[local[t].lock] = None
      /\ pc[t] \in {"get1", "get2", "put"} => lock = None
      /\ pc[t] \in {"put", "store", "glock2", "cleanup", "unlock"} => call[t].ran
      /\ Done(t) => call[t].ran /\ (~call[t].raised => call[t].result = call[t].produced)

\* C8 witness: a retry has run its producer and returned its value.
RetryWitness ==
  \E t \in Threads :
    /\ call[t].retry
    /\ Done(t)
    /\ call[t].ran
    /\ ~call[t].raised
    /\ call[t].result \in Values
    /\ Has(cache, call[t].key)

\* C9: a call whose producer raises leaves the stored keys and values as they
\* were: no step of the call changes them.
FailureWritesNothing ==
  \A t \in Threads : call[t].raised => ~call[t].wrote

\* C9 witness: a call has failed for a key while another key was stored, and
\* that key and its value are still stored.
FailureWitness ==
  \E t \in Threads :
    /\ Done(t)
    /\ call[t].raised
    /\ ~Has(cache, call[t].key)
    /\ cache # <<>>

\* C10: once the producer has run for a key and its call has ended, by a
\* return or by a raise, key_locks has no entry for the key (unless another
\* call for the key is under way).
RegistryEntryRemoved ==
  \A t \in Threads :
    (/\ Done(t)
     /\ call[t].ran
     /\ \A u \in Threads : pc[u] \in InCall => local[u].key # call[t].key)
      => call[t].key \notin DOMAIN key_locks

\* C11: whenever no get_or_compute call is in progress, key_locks is empty:
\* every entry that was created has been removed.
RegistryEmptyWhenIdle ==
  (\A t \in Threads : pc[t] \notin InCall) => DOMAIN key_locks = {}

\* C12 as claimed: a call that found the key's entry in key_locks never runs
\* the producer itself.
FinderNeverComputes ==
  \A t \in Threads : call[t].found => pc[t] # "compute" /\ ~call[t].ran

\* C12 as amended: a call that found the key's entry in key_locks waits for
\* that entry's lock and reads the cache again while it holds it; it returns
\* the value it reads when that is not None, without running the producer,
\* and otherwise it runs the producer itself and ends with what its own run
\* returned or raised.
FinderChecksAgain ==
  \A t \in Threads :
    call[t].found =>
      /\ pc[t] \in InWith => holder[local[t].lock] = t
      /\ pc[t] \in {"compute", "put", "store", "glock2", "cleanup", "unlock"} => call[t].reads = 2
      /\ pc[t] \in {"put", "store", "glock2", "cleanup", "unlock"} => call[t].ran
      /\ Done(t) =>
           /\ call[t].reads = 2
           /\ \/ ~call[t].ran /\ ~call[t].raised /\ call[t].result # None
              \/ call[t].ran /\ ~call[t].raised /\ call[t].result = call[t].produced
              \/ call[t].ran /\ call[t].raised

\* C12 witness: a call that found the key's entry has run the producer itself
\* and returned its value, while the key is stored with that value.
FinderComputesWitness ==
  \E t \in Threads :
    /\ call[t].found
    /\ Done(t)
    /\ call[t].ran
    /\ call[t].result \in Values
    /\ Has(cache, call[t].key)
    /\ ValueOf(cache, call[t].key) = call[t].result

\* C13 as claimed: a call reads the cache once, and never a second time.
ReadsCacheOnce ==
  \A t \in Threads : call[t].reads <= 1

\* C13 as amended: a call reads the cache once before it consults key_locks
\* and, when that read misses, once more after it has acquired the key's lock;
\* it never reads a third time, it runs the producer only after both reads have
\* missed, and a call that ends after one read returns the value it read.
DoubleChecked ==
  \A t \in Threads :
    /\ call[t].reads \in 0..2
    /\ pc[t] \in {"get1", "read1"} => call[t].reads = 0
    /\ pc[t] \in {"glock1", "registry", "lock", "get2", "read2"} => call[t].reads = 1
    /\ (pc[t] \in {"compute", "put", "store", "glock2", "cleanup", "unlock"} \/ call[t].ran)
         => call[t].reads = 2
    /\ (Done(t) /\ call[t].reads = 1) => ~call[t].raised /\ call[t].result # None

\* C13 witness: a call has missed at its first read, hit at its second, under
\* the key's lock, and returned without running the producer.
DoubleCheckWitness ==
  \E t \in Threads :
    /\ Done(t)
    /\ call[t].reads = 2
    /\ ~call[t].ran
    /\ call[t].result \in Values

\* ------------------------------------------------ ThreadSafeCache
\* C14: through a ThreadSafeCache, at most one thread at a time is inside get,
\* put, remove, size or clear of the wrapped Cache, that thread holds the lock,
\* and the lock is free whenever no call is inside.
MutualExclusion ==
  /\ Cardinality({t \in Threads : pc[t] \in InGuard}) <= 1
  /\ \A t \in Threads : pc[t] \in InGuard <=> lock = t
  /\ (\A t \in Threads : pc[t] \notin InGuard) => lock = None

\* C14 witness: a thread is inside Cache.get, between the strategy's get and
\* the count of the hit, while another thread waits for the lock.
MutualExclusionWitness ==
  \E t, u \in Threads :
    /\ pc[t] = "in_get_stats"
    /\ local[t].value # None
    /\ pc[u] \in Waiting

\* C15: the calls made through one ThreadSafeCache are linearizable: each call
\* takes effect at one moment between its start and its return, and at that
\* moment its return value and the state of the cache are those of a Cache
\* that has run the same calls one at a time in the order of those moments.
Linearizable ==
  [][\A t \in Threads :
       (pc[t] \in InGuard /\ pc'[t] = "done")
         => /\ Strat' = lin'.s
            /\ stats' = lin'.stats
            /\ call'[t].result =
                 Sequential(MethodAt[pc[t]], lin, local[t].key, local[t].value, clock').ret]_vars

\* C15 witness: a put and a get that hit have returned, the cache is as the
\* history's Cache is, and another thread's call is waiting for the lock.
LinearizableWitness ==
  \E t, u \in Threads :
    /\ t # u
    /\ Done(t)
    /\ pc[u] \in Waiting
    /\ lock = None
    /\ lin.stats.hits = 1
    /\ Strat = lin.s
    /\ stats = lin.stats
    /\ Len(cache) = 1
    /\ recency # <<>>

\* the value store, the policy metadata and the counters
Shared == <<cache, freq, access_time, min_heap, stats>>

\* C16: every step that changes the value store, the policy metadata or the
\* hits/misses counters of a cache shared by several threads is taken by the
\* thread that holds the ThreadSafeCache's lock, the reads and writes of
\* get_or_compute included.
MutatedUnderLock ==
  [][Shared' # Shared => (lock # None /\ pc'[lock] # pc[lock])]_vars

\* C17: while a thread runs the producer it holds neither global_lock nor the
\* ThreadSafeCache's lock; global_lock is held only by a thread that is looking
\* up, inserting or deleting an entry of key_locks, and the ThreadSafeCache's
\* lock only by a thread inside a cache call.
ProducerOutsideSharedLocks ==
  /\ \A t \in Threads : pc[t] = "compute" => (global_lock # t /\ lock # t)
  /\ global_lock # None => pc[global_lock] \in {"registry", "cleanup"}
  /\ lock # None => pc[lock] \in {"read1", "read2", "store"}
  /\ \A t \in Threads : pc[t] \in {"registry", "cleanup"} => global_lock = t

\* C17 witness: while one thread runs the producer for a key, another thread
\* holds the ThreadSafeCache's lock and reads the other key.
ProducerOutsideWitness ==
  \E t, u \in Threads :
    /\ pc[t] = "compute"
    /\ pc[u] = "read2"
    /\ lock = u
    /\ local[u].key # local[t].key

\* the per-key lock objects a thread holds
LocksHeld(t) == {l \in LockIds : holder[l] = t}

\* C18 as claimed: a thread that is running the producer holds no lock at all.
ProducerHoldsNoLock ==
  \A t \in Threads :
    pc[t] = "compute" => (LocksHeld(t) = {} /\ global_lock # t /\ lock # t)

\* C18 as amended: a thread that is running the producer holds the lock of its
\* key, the one it fetched from key_locks, and no other lock: no other key's
\* lock, not global_lock, not the ThreadSafeCache's lock.
ProducerHoldsKeyLock ==
  \A t \in Threads :
    pc[t] = "compute" => (LocksHeld(t) = {local[t].lock} /\ global_lock # t /\ lock # t)

\* C18 witness: a thread runs the producer while another waits for the lock it
\* holds.
ProducerHoldsWitness ==
  \E t, u \in Threads :
    /\ pc[t] = "compute"
    /\ pc[u] = "lock"
    /\ local[u].lock = local[t].lock
    /\ holder[local[t].lock] = t

\* ------------------------------------------------ Cache.get and Cache.put
\* C19: Cache.get(key) adds one to hits, and nothing to misses, and returns
\* the stored value whenever the key is stored, whatever its value; it adds
\* one to misses, and nothing to hits, and returns None whenever it is not.
GetCountsPresence ==
  [][op'.name = "get"
       => IF op'.present
          THEN /\ stats' = [stats EXCEPT !.hits = @ + 1]
               /\ ret' = ValueOf(cache, op'.key)
          ELSE /\ stats' = [stats EXCEPT !.misses = @ + 1]
               /\ ret' = None]_vars

\* the key is in neither the value store nor the policy metadata
Forgotten(key) ==
  /\ ~Has(cache, key)
  /\ key \notin DOMAIN freq
  /\ key \notin DOMAIN access_time
  /\ \A i \in 1..Len(min_heap) : min_heap[i][3] # key

\* C20: for a cache of capacity at least 1, Cache.put(key, value) evicts
\* exactly when the key is new and size equals capacity before the call: then
\* it returns the evicted key, which was stored, that key alone leaves, and it
\* is afterwards in neither the store nor the policy metadata; in every other
\* case put returns None and no key leaves.
PutEvictsExactly ==
  [][op'.name = "put"
       => IF ~op'.present /\ StrategySize(Strat) = capacity
          THEN /\ ret' \in StoredKeys
               /\ StoredKeys' = (StoredKeys \ {ret'}) \cup {op'.key}
               /\ ~Has(cache', ret')
               /\ ret' \notin DOMAIN freq' \cup DOMAIN access_time'
               /\ \A i \in 1..Len(min_heap') : min_heap'[i][3] # ret'
          ELSE /\ ret' = None
               /\ StoredKeys' = StoredKeys \cup {op'.key}]_vars

\* C20 witness: a put into a full LFU cache of capacity 2 has just evicted a
\* key that a get had hit, and the heap holds the two keys that are stored.
PutEvictsWitness ==
  /\ kind = "LFU"
  /\ capacity = 2
  /\ op.name = "put"
  /\ ~op.present
  /\ ret \in Keys
  /\ Forgotten(ret)
  /\ stats.hits = 1
  /\ {min_heap[i][3] : i \in 1..Len(min_heap)} = StoredKeys
  /\ Cardinality(StoredKeys) = 2

\* C21: Cache.remove(key) returns True exactly when the key was stored;
\* afterwards the key is in neither the store nor the policy metadata, a get
\* of it that follows misses, and every other stored key is stored still, with
\* the value it had.
RemoveForgets ==
  [][op'.name = "remove"
       => /\ ret' = op'.present
          /\ StoredKeys' = StoredKeys \ {op'.key}
          /\ op'.key \notin DOMAIN freq' \cup DOMAIN access_time'
          /\ \A i \in 1..Len(min_heap') : min_heap'[i][3] # op'.key
          /\ \A now \in Nows' :
               /\ CacheGet(kind', Strat', stats', op'.key, now).ret = None
               /\ CacheGet(kind', Strat', stats', op'.key, now).stats.misses = stats'.misses + 1
          /\ \A k \in StoredKeys' : ValueOf(cache', k) = ValueOf(cache, k)]_vars

\* C21 witness: a stored key has just been removed from an LFU cache that held
\* two keys, and the other key is stored still.
RemoveWitness ==
  /\ kind = "LFU"
  /\ op.name = "remove"
  /\ op.present
  /\ ret = TRUE
  /\ Cardinality(StoredKeys) = 1
  /\ Len(min_heap) = 1
  /\ DOMAIN freq = StoredKeys

\* C22: after clear(), whatever the cache held, for both policies: size() is
\* 0, no key is retrievable, the policy metadata is empty, and get_stats
\* reports hits 0, misses 0, hit_rate 0, size 0 and the capacity the cache had.
ClearResets ==
  [][op'.name = "clear"
       => /\ StrategySize(Strat') = 0
          /\ \A k \in Keys, now \in Nows' : CacheGet(kind', Strat', stats', k, now).ret = None
          /\ DOMAIN freq' = {}
          /\ DOMAIN access_time' = {}
          /\ min_heap' = <<>>
          /\ CacheGetStats(Strat', stats', capacity') =
               [hits |-> 0, misses |-> 0, hit_rate |-> Zero, size |-> 0, capacity |-> capacity]]_vars

\* C22 witness: an LFU cache that held two keys, stored at different times, has
\* just been cleared.
ClearWitness ==
  /\ kind = "LFU"
  /\ op.name = "clear"
  /\ pushes = 1
  /\ clock = 1
  /\ cache = <<>>
  /\ stats = [hits |-> 0, misses |-> 0]

\* what get_stats reports before and after a step
Reported == CacheGetStats(Strat, stats, capacity)

\* C23: get_stats reports as hits the number h of gets that found their key
\* and as misses the number m of gets that did not, since construction or the
\* last clear, and hit_rate = h / (h + m), or 0 when h = m = 0.  Step by step:
\* the counts start at 0, a get that finds its key adds one to the hits
\* reported, a get that does not adds one to the misses reported, clear sets
\* both to 0, no other call changes them, and the rate reported is the
\* quotient of the counts reported.
StatsCountGets ==
  [][/\ (op'.name = "get" /\ op'.present)
         => (Reported'.hits = Reported.hits + 1 /\ Reported'.misses = Reported.misses)
     /\ (op'.name = "get" /\ ~op'.present)
         => (Reported'.hits = Reported.hits /\ Reported'.misses = Reported.misses + 1)
     /\ op'.name = "clear" => (Reported'.hits = 0 /\ Reported'.misses = 0)
     /\ op'.name \in {"put", "remove", "size", "get_stats"}
         => (Reported'.hits = Reported.hits /\ Reported'.misses = Reported.misses)
     /\ Reported'.hit_rate =
          IF Reported'.hits + Reported'.misses = 0 THEN Zero
          ELSE Ratio(Reported'.hits, Reported'.hits + Reported'.misses)
     /\ op'.name = "get_stats" => (ret' = Reported' /\ error' = NoError)]_vars

\* C24: a cache is never built with a capacity of 0 or less: the construction
\* fails with an InvalidConfiguration error, so that no such cache exists,
\* stores a key or answers a call.
CapacityRejected ==
  capacity < 1 => (error = "InvalidConfiguration" /\ op.name = "init" /\ cache = <<>>)

\* C25: in a cache of capacity 1 or more no call of get, put, remove, size,
\* clear or get_stats ends with an error, whatever the calls before it; a get
\* of a key that is not stored returns None and a remove of it returns False.
NeverRaises ==
  /\ capacity >= 1
  /\ error = NoError
  /\ (op.name = "get" /\ ~op.present) => ret = None
  /\ (op.name = "remove" /\ ~op.present) => ret = FALSE

\* a get of a key that is not stored, in a full cache
NeverRaisesWitness ==
  /\ op.name = "get" /\ ~op.present
  /\ Len(cache) = capacity
  /\ ret = None /\ error = NoError

\* C26: a call of get_or_compute that has ended either returned a value or
\* raised the error its own producer raised, and nothing else: over a cache
\* of capacity 1 or more no call ends with an error of the cache or of
\* get_or_compute itself.
EndsTwoWays ==
  /\ capacity >= 1
  /\ \A t \in Threads :
       pc[t] = "done" =>
         \/ ~call[t].raised /\ call[t].error = NoError
         \/ call[t].raised /\ call[t].error = "producer" /\ call[t].ran

\* one call has returned the value it produced, another has raised its
\* producer's error
EndsTwoWaysWitness ==
  \E t, u \in Threads :
    /\ pc[t] = "done" /\ call[t].ran /\ ~call[t].raised /\ call[t].result \in Values
    /\ pc[u] = "done" /\ call[u].ran /\ call[u].raised /\ call[u].error = "producer"

\* C27: the counters hits and misses never decrease except at a clear: a get
\* adds exactly 1 to exactly one of them, a clear sets both to 0, and put,
\* remove, size and get_stats leave both as they were.
CountersMonotone ==
  [][/\ op'.name = "get"
         => \/ stats'.hits = stats.hits + 1 /\ stats'.misses = stats.misses
            \/ stats'.hits = stats.hits /\ stats'.misses = stats.misses + 1
     /\ op'.name = "clear" => (stats'.hits = 0 /\ stats'.misses = 0)
     /\ op'.name \in {"put", "remove", "size", "get_stats"} => stats' = stats
     /\ op'.name # "clear" => (stats'.hits >= stats.hits /\ stats'.misses >= stats.misses)]_vars

\* a get has just been counted, after gets of both outcomes
CountersWitness ==
  /\ op.name = "get"
  /\ stats.hits = 1 /\ stats.misses = 1

\* C28: when the key is stored in the cache at the first read of a call of
\* get_or_compute, the call ends at that read with the stored value: its
\* producer has not run, no lock of the registry or of a key is taken, and
\* key_locks is as it was.
FastPath ==
  [][\A t \in Threads :
       (pc[t] = "read1" /\ pc'[t] # "read1" /\ Has(cache, local[t].key))
         => /\ pc'[t] = "done"
            /\ call'[t].result = ValueOf(cache, local[t].key)
            /\ ~call'[t].ran
            /\ key_locks' = key_locks
            /\ global_lock' = global_lock
            /\ holder' = holder]_vars

\* C29: every handle the factory returns, the thread-safe wrapper included,
\* answers the stats operation with hits, misses, hit_rate, size and capacity.
StatsSupported ==
  op.name = "get_stats" =>
    /\ error = NoError
    /\ ret = CacheGetStats(Strat, stats, capacity)

\* C30: no get, put or remove of an LFU cache builds the heap anew from all
\* the stored keys: with two keys or more stored after the call, the call
\* has pushed fewer heap entries than there are keys.
NoFullRebuild ==
  (kind = "LFU" /\ op.name \in {"get", "put", "remove"} /\ Len(cache) >= 2)
    => pushes < Len(cache)

\* the pcs at which a thread is inside the with block of its key's lock
InKeyLock == {"get2", "read2", "compute", "put", "store", "glock2", "cleanup", "unlock"}

\* C31: in a call that runs its producer the steps come in this order: the
\* producer finishes, the value is written to the cache, the key's entry of
\* the registry is removed, and then the key's lock is released.  The return
\* of the producer changes neither cache nor registry nor locks; a caller
\* removes an entry only after its producer has returned and its put is done;
\* it gives up its lock only after that; and no caller waiting for a lock gets
\* it while another caller is still inside that lock's block, before its write.
StepsInOrder ==
  [][\A t \in Threads :
       /\ (pc[t] = "compute" /\ pc'[t] = "put")
            => (cache' = cache /\ key_locks' = key_locks /\ holder' = holder)
       /\ (pc'[t] # pc[t] /\ key_locks' # key_locks /\ DOMAIN key_locks' \subseteq DOMAIN key_locks)
            => (pc[t] = "cleanup" /\ call[t].ran /\ ~call[t].raised)
       /\ (pc[t] \in {"put", "store", "glock2", "cleanup", "unlock"} /\ holder'[local[t].lock] # t)
            => (pc[t] = "unlock" /\ pc'[t] = "done")
       /\ (pc[t] = "lock" /\ pc'[t] = "get2")
            => \A u \in Threads \ {t} : local[u].lock = local[t].lock => pc[u] \notin InKeyLock]_vars

\* a caller has produced, stored its value and removed the entry, and still
\* holds the lock another caller is waiting for
StepsInOrderWitness ==
  \E t, u \in Threads :
    /\ pc[t] = "unlock" /\ call[t].ran
    /\ Has(cache, local[t].key)
    /\ local[t].key \notin DOMAIN key_locks
    /\ pc[u] = "lock" /\ local[u].lock = local[t].lock
    /\ holder[local[t].lock] = t

\* the step is a get that finds key k or a put on the stored key k
Accesses(k) == op'.name \in {"get", "put"} /\ op'.key = k /\ op'.present

\* C32: in an LFU cache the frequency of a key is 1 when the key is inserted
\* as a new key, grows by exactly 1 at every get that finds the key and every
\* put on the key already stored, and never decreases while the key stays
\* stored; and each such insertion or access gives the key a timestamp that
\* is not older than any timestamp taken before.
FrequencyCounts ==
  [][kind = "LFU" =>
       \A k \in Keys :
         /\ (~Has(cache, k) /\ Has(cache', k)) => freq'[k] = 1
         /\ (Has(cache, k) /\ Accesses(k)) => (Has(cache', k) /\ freq'[k] = freq[k] + 1)
         /\ (Has(cache, k) /\ Has(cache', k)) => freq'[k] >= freq[k]
         /\ ((~Has(cache, k) /\ Has(cache', k)) \/ (Has(cache, k) /\ Accesses(k)))
              => \A j \in DOMAIN access_time : access_time'[k] >= access_time[j]]_vars

\* C33: after every get, put and remove of an LFU cache the dicts cache, freq
\* and access_time have the same keys, and min_heap holds exactly one entry
\* (freq[k], access_time[k], k) for each stored key k and none for any other
\* key, so that the key an eviction pops is a stored one and no del fails.
HeapMatchesMaps ==
  kind = "LFU" =>
    /\ DOMAIN freq = StoredKeys
    /\ DOMAIN access_time = StoredKeys
    /\ Len(min_heap) = Cardinality(StoredKeys)
    /\ {min_heap[i] : i \in 1..Len(min_heap)} = {<<freq[k], access_time[k], k>> : k \in StoredKeys}
    /\ error = NoError

\* a get has just raised the frequency of one of two stored keys
HeapMatchesWitness ==
  /\ kind = "LFU"
  /\ op.name = "get" /\ op.present
  /\ Len(min_heap) = 2
  /\ freq[op.key] = 2
  /\ \E k \in StoredKeys : freq[k] = 1

\* C34: with producers that terminate and do not call get_or_compute, no
\* reachable state is a deadlock among global_lock, the keys' locks and the
\* ThreadSafeCache's lock: while a call is under way some thread can take a
\* step; and under a fair scheduler every call ends, by a return or a raise:
\* from some time on no thread is inside get_or_compute (each thread calls
\* at most once in FairStampedeSpec).
EveryCallEnds ==
  /\ []((\E t \in Threads : pc[t] \in InCall)
          => \E t \in Threads : ENABLED (Step(t) \/ ProducerEnds(t)))
  /\ <>[](\A t \in Threads : pc[t] \notin InCall)

\* a caller waits for the key's lock while its holder, whose producer has
\* returned, waits for the ThreadSafeCache's lock that a third caller holds
EveryCallEndsWitness ==
  \E t, u, w \in Threads :
    /\ pc[t] = "lock" /\ holder[local[t].lock] = u
    /\ pc[u] = "put" /\ call[u].ran
    /\ lock = w

\* C35: for each key at most one thread at a time is inside the with block of
\* the key's lock, and all the threads that hold or wait for a lock for one
\* key use the same lock object.
OneLockPerKey ==
  \A t, u \in Threads :
    (t # u /\ local[t].key = local[u].key)
      => /\ ~(pc[t] \in InKeyLock /\ pc[u] \in InKeyLock)
         /\ (pc[t] \in InKeyLock \cup {"lock"} /\ pc[u] \in InKeyLock \cup {"lock"})
              => local[t].lock = local[u].lock

\* C36: whenever a caller of get_or_compute deletes key_locks[key], the lock
\* it deletes is the lock it holds: no caller removes an entry that another
\* caller created and uses.
DeletesOwnLock ==
  [][\A t \in Threads :
       (pc[t] = "cleanup" /\ pc'[t] = "unlock" /\ key_locks' # key_locks)
         => /\ key_locks[local[t].key] = local[t].lock
            /\ holder[local[t].lock] = t]_vars

\* C37: once a call of get_or_compute has returned v for key k, and for as
\* long as k stays stored, every later call for k returns v and does not run
\* its producer, whatever v is, None included.  The cache is written by
\* get_or_compute alone here, so that a stored value is one a call produced
\* and returns; a later call runs its producer only after both its reads of
\* the cache: each read that finds k stored must end the call with the
\* stored value, the producer not having run.
ReturnsStoredValue ==
  [][\A t \in Threads :
       (pc[t] \in {"read1", "read2"} /\ pc'[t] # pc[t] /\ Has(cache, local[t].key))
         => /\ pc'[t] = "done"
            /\ ~call'[t].ran /\ ~call'[t].raised
            /\ call'[t].result = ValueOf(cache, local[t].key)]_vars

\* C38: a get and a remove of a key that is not stored leave the stored keys,
\* their values and the policy's metadata (the LRU order, the LFU frequencies,
\* timestamps and heap) as they were, for both policies: such a get returns
\* None and changes the misses counter alone, such a remove returns False and
\* changes nothing.
AbsentKeyFrame ==
  [][/\ (op'.name = "get" /\ ~op'.present)
          => /\ <<cache, freq, access_time, min_heap, recency>>'
                  = <<cache, freq, access_time, min_heap, recency>>
             /\ stats' = [stats EXCEPT !.misses = @ + 1]
             /\ ret' = None
     /\ (op'.name = "remove" /\ ~op'.present)
          => /\ <<cache, freq, access_time, min_heap, recency>>'
                  = <<cache, freq, access_time, min_heap, recency>>
             /\ stats' = stats
             /\ ret' = FALSE]_vars

\* a get has just missed in an LFU cache that holds two keys of different
\* frequencies
AbsentKeyWitness ==
  /\ kind = "LFU"
  /\ op.name = "get" /\ ~op.present
  /\ Len(cache) = 2
  /\ \E k, j \in StoredKeys : freq[k] < freq[j]
  /\ stats.misses = 1

\* C39: what a call of get_or_compute adds to the counters: a call served at
\* its first read makes that one read, which adds 1 to hits and nothing to
\* misses; a call that runs its producer has made exactly two reads, each of
\* which added 1 to misses and nothing to hits; no other step of a call
\* changes a counter, and no call reads more than twice, so that a call
\* changes hits + misses by 2 at most.
CallAccounting ==
  [][\A t \in Threads :
       /\ (pc[t] = "read1" /\ pc'[t] = "done")
            => (stats' = [stats EXCEPT !.hits = @ + 1] /\ call'[t].reads = 1 /\ ~call'[t].ran)
       /\ (pc[t] = "read1" /\ pc'[t] = "glock1")
            => (stats' = [stats EXCEPT !.misses = @ + 1] /\ call'[t].reads = 1)
       /\ (pc[t] = "read2" /\ pc'[t] = "compute")
            => (stats' = [stats EXCEPT !.misses = @ + 1] /\ call'[t].reads = 2)
       /\ (pc[t] = "compute" /\ pc'[t] # "compute") => (call'[t].ran /\ call'[t].reads = 2)
       /\ (pc[t] \notin {"read1", "read2"} /\ pc'[t] # pc[t]) => stats' = stats
       /\ call'[t].reads <= 2]_vars

\* one call has run its producer after two misses and another has been
\* served at its first read
CallAccountingWitness ==
  \E t, u \in Threads :
    /\ pc[t] = "done" /\ call[t].ran /\ call[t].reads = 2
    /\ pc[u] = "done" /\ ~call[u].ran /\ call[u].reads = 1
    /\ stats.hits = 1 /\ stats.misses = 2

=============================================================================
